---------------------------- MODULE Spec2Model ----------------------------
(***************************************************************************)
(* Model of the two event-driven services of the repository:               *)
(*   services/fleet-stats/app.py      keyed running aggregates             *)
(*   services/emergency-alert/app.py  emergency squawk alert ledger        *)
(*                                                                         *)
(* Python values are tagged records ([t |-> "num", v |-> 3], ...), strings *)
(* that the code slices, strips or scans are sequences of one-character    *)
(* strings, and a Python call that can raise returns a result record       *)
(* [ok |-> BOOLEAN, val |-> ...].                                          *)
(***************************************************************************)
EXTENDS Integers, Sequences, FiniteSets, TLC

VARIABLES
    stats,          \* fleet-stats: the module-level dict `stats`
    hashSeed,       \* fleet-stats: the interpreter's per-process string hash seed
    store,          \* the external state store's value under "fleet:stats:summary"
    fleetResp,      \* fleet-stats: the response returned to the last request
    tally,          \* history: per (dimension, bucket), the events seen so far
    nFleet,         \* history: number of flight-update requests fleet-stats handled
    handled,        \* history: how often the process handled each event of FleetEvents
    saving,         \* fleet-stats: the save_state call the event loop is inside, if any
    active_alerts,  \* emergency-alert: dict alert_id -> alert record
    alert_history,  \* emergency-alert: deque(maxlen=100) of alert records
    now,            \* emergency-alert: the last reading of datetime.utcnow()
    alertResp,      \* emergency-alert: the response returned by the last request
    alertReq,       \* history: the last request emergency-alert handled
    nAlert          \* history: number of alerts recorded by emergency-alert

fleetVars == <<stats, hashSeed, store, fleetResp, tally, nFleet, handled, saving>>
alertVars == <<active_alerts, alert_history, now, alertResp, alertReq, nAlert>>
vars == <<stats, hashSeed, store, fleetResp, tally, nFleet, handled, saving,
          active_alerts, alert_history, now, alertResp, alertReq, nAlert>>

-----------------------------------------------------------------------------
(* Python values *)

Missing == [t |-> "missing"]            \* the key is not in the dict
Null == [t |-> "null"]                  \* JSON null / None
Num(n) == [t |-> "num", v |-> n]
Str(s) == [t |-> "str", v |-> s]        \* s: sequence of characters
Obj(o) == [t |-> "obj", v |-> o]        \* o: a flight dict

Ok(v) == [ok |-> TRUE, val |-> v]
Raise(v) == [ok |-> FALSE, val |-> v]   \* an exception; v: the state left behind

\* dict.get(key) / dict.get(key, default): the default only replaces a
\* missing key, a null value is returned as None.
Get(d, k, default) == IF d[k].t = "missing" THEN default ELSE d[k]

\* Python truthiness of a value
Truthy(x) ==
    CASE x.t = "missing" -> FALSE
      [] x.t = "null" -> FALSE
      [] x.t = "num" -> x.v # 0
      [] x.t = "str" -> Len(x.v) > 0
      [] x.t = "obj" -> \E k \in DOMAIN x.v : x.v[k].t # "missing"
      [] OTHER -> TRUE

FlightKeys == {"icao24", "callsign", "squawk", "latitude", "longitude",
               "baro_altitude", "velocity", "origin_country"}

EmptyDict == [k \in FlightKeys |-> Missing]

-----------------------------------------------------------------------------
(* Strings *)

Whitespace == {" "}
Digits == <<"0", "1", "2", "3", "4", "5", "6", "7", "8", "9">>
IsDigit(c) == \E i \in 1..Len(Digits) : Digits[i] = c
DigitVal(c) == (CHOOSE i \in 1..Len(Digits) : Digits[i] = c) - 1

RECURSIVE LStrip(_)
LStrip(s) == IF s # <<>> /\ Head(s) \in Whitespace THEN LStrip(Tail(s)) ELSE s

RECURSIVE RStrip(_)
RStrip(s) ==
    IF s # <<>> /\ s[Len(s)] \in Whitespace
    THEN RStrip(SubSeq(s, 1, Len(s) - 1)) ELSE s

\* str.strip()
Strip(s) == RStrip(LStrip(s))

\* s[:n]
Prefix(s, n) == SubSeq(s, 1, IF Len(s) < n THEN Len(s) ELSE n)

\* int(''.join(filter(str.isdigit, s)) or '0')
RECURSIVE DigitsToInt(_, _)
DigitsToInt(s, acc) ==
    IF s = <<>> THEN acc
    ELSE IF IsDigit(Head(s)) THEN DigitsToInt(Tail(s), acc * 10 + DigitVal(Head(s)))
    ELSE DigitsToInt(Tail(s), acc)

\* str(n) for an integer n >= 0
RECURSIVE IntToStr(_)
IntToStr(n) ==
    IF n < 10 THEN <<Digits[n + 1]>>
    ELSE Append(IntToStr(n \div 10), Digits[(n % 10) + 1])

\* The built-in hash() of a string: fixed within one process, differing
\* between processes (hash randomisation).  A polynomial hash keyed by the
\* process's seed stands for it.
Alphabet == <<" ", "0", "1", "2", "3", "4", "5", "6", "7", "8", "9",
              "A", "B", "C", "D", "E", "F", "K", "L", "N", "Q", "U", "W", "X", "Z",
              "a", "b", "c", "d", "e", "f">>
Ord(c) == CHOOSE i \in 1..Len(Alphabet) : Alphabet[i] = c
RECURSIVE PyHash(_, _)
PyHash(seed, s) ==
    IF s = <<>> THEN (seed * 7919 + 17) % 10007
    ELSE (PyHash(seed, SubSeq(s, 1, Len(s) - 1)) * 31 + Ord(s[Len(s)])) % 10007

-----------------------------------------------------------------------------
(* fleet-stats: classification *)

airline_codes ==
    <<[code |-> <<"D", "L">>, name |-> "Delta"],
      [code |-> <<"U", "A">>, name |-> "United"],
      [code |-> <<"W", "N">>, name |-> "Southwest"],
      [code |-> <<"Q", "F">>, name |-> "Qantas"],
      [code |-> <<"E", "K">>, name |-> "Emirates"]>>

\* get_airline_from_callsign(callsign); callsign is a Python value.
\* len() of a number raises TypeError.
get_airline_from_callsign(callsign) ==
    IF ~Truthy(callsign) THEN Ok("Unknown")
    ELSE IF callsign.t # "str" THEN Raise("TypeError")
    ELSE IF Len(callsign.v) < 2 THEN Ok("Unknown")
    ELSE LET code == Strip(Prefix(callsign.v, 2))
         IN  IF \E i \in 1..Len(airline_codes) : airline_codes[i].code = code
             THEN Ok(airline_codes[CHOOSE i \in 1..Len(airline_codes) :
                                       airline_codes[i].code = code].name)
             ELSE Ok("Other")

\* flight.get('callsign', '').strip(): None and numbers have no strip()
StrippedCallsign(flight) ==
    LET c == Get(flight, "callsign", Str(<<>>))
    IN  IF c.t = "str" THEN Ok(Strip(c.v)) ELSE Raise("AttributeError")

\* The airports dict of infer_destination_from_flight, in insertion order;
\* coordinates in units of 1e-4 degree, as subtracted by airport_distances.
airports ==
    <<[icao |-> "KJFK", lat |-> 406413, lon |-> -737781],
      [icao |-> "KLAX", lat |-> 339425, lon |-> -1184081],
      [icao |-> "EGLL", lat |-> 514700, lon |-> -4543],
      [icao |-> "YSSY", lat |-> -339399, lon |-> 1511753],
      [icao |-> "OMDB", lat |-> 252532, lon |-> 553657],
      [icao |-> "KORD", lat |-> 419786, lon |-> -879048],
      [icao |-> "KDFW", lat |-> 328998, lon |-> -970403],
      [icao |-> "KATL", lat |-> 336407, lon |-> -844277]>>

\* Squares of coordinate differences exceed 32 bits: a squared distance is
\* the pair [hi, lo] standing for hi * 10^6 + lo (units of 1e-8 degree^2).
Abs(x) == IF x < 0 THEN -x ELSE x
Norm(hi, lo) == [hi |-> hi + (lo \div 1000000), lo |-> lo % 1000000]
Square(x) ==
    LET xh == Abs(x) \div 1000
        xl == Abs(x) % 1000
        m == 2 * xh * xl
    IN  Norm(xh * xh + (m \div 1000), (m % 1000) * 1000 + xl * xl)
Dist2(lat, lon, a) ==
    LET p == Square(lat - a.lat)
        q == Square(lon - a.lon)
    IN  Norm(p.hi + q.hi, p.lo + q.lo)
Less(p, q) == p.hi < q.hi \/ (p.hi = q.hi /\ p.lo < q.lo)

\* min(airport_distances.items(), key=...): the first minimal item
Closest(lat, lon) ==
    CHOOSE i \in 1..Len(airports) :
        /\ \A j \in 1..Len(airports) :
               ~Less(Dist2(lat, lon, airports[j]), Dist2(lat, lon, airports[i]))
        /\ \A j \in 1..(i - 1) :
               Less(Dist2(lat, lon, airports[i]), Dist2(lat, lon, airports[j]))

\* infer_destination_from_flight(flight); latitude/longitude in 1e-4 degree
infer_destination_from_flight(flight) ==
    LET lat == Get(flight, "latitude", Null)
        lon == Get(flight, "longitude", Null)
        byPosition == Truthy(lat) /\ Truthy(lon)
        badPosition == byPosition /\ (lat.t # "num" \/ lon.t # "num")
        near == IF byPosition /\ ~badPosition
                THEN LET i == Closest(lat.v, lon.v)
                     IN  IF Less(Dist2(lat.v, lon.v, airports[i]), [hi |-> 250000, lo |-> 0])
                         THEN i ELSE 0
                ELSE 0
        cs == StrippedCallsign(flight)
    IN  IF badPosition THEN Raise("TypeError")
        ELSE IF near # 0 THEN Ok(airports[near].icao)
        ELSE IF ~cs.ok THEN cs
        ELSE IF cs.val # <<>>
             THEN Ok(airports[(DigitsToInt(cs.val, 0) % Len(airports)) + 1].icao)
        ELSE Ok("Unknown")

country_airports ==
    <<[country |-> "United States", airports |-> <<"KJFK", "KLAX", "KORD", "KDFW", "KATL">>],
      [country |-> "United Kingdom", airports |-> <<"EGLL">>],
      [country |-> "Australia", airports |-> <<"YSSY">>],
      [country |-> "United Arab Emirates", airports |-> <<"OMDB">>]>>

default_airports == <<"KJFK", "KLAX", "EGLL", "YSSY", "OMDB">>

\* infer_origin_from_flight(flight); origin_country is a country name
\* (a TLA+ string) tagged "name", or missing.
infer_origin_from_flight(seed, flight) ==
    LET oc == Get(flight, "origin_country", [t |-> "name", v |-> ""])
        known == oc.t = "name" /\
                 \E i \in 1..Len(country_airports) : country_airports[i].country = oc.v
        list == country_airports[CHOOSE i \in 1..Len(country_airports) :
                                     country_airports[i].country = oc.v].airports
        icao24 == Get(flight, "icao24", Str(<<>>))
        cs == StrippedCallsign(flight)
    IN  IF known
        THEN IF Truthy(icao24)
             THEN Ok(list[(PyHash(seed, icao24.v) % Len(list)) + 1])
             ELSE Ok(list[1])
        ELSE IF ~cs.ok THEN cs
        ELSE IF cs.val # <<>>
             THEN Ok(default_airports[((DigitsToInt(cs.val, 0) + 1) % Len(default_airports)) + 1])
        ELSE Ok("Unknown")

\* infer_aircraft_type_from_flight(flight)
infer_aircraft_type_from_flight(seed, flight) ==
    LET cs == StrippedCallsign(flight)
        a0 == Get(flight, "baro_altitude", Num(0))
        v0 == Get(flight, "velocity", Num(0))
        altitude == IF Truthy(a0) THEN a0 ELSE Num(0)
        velocity == IF Truthy(v0) THEN v0 ELSE Num(0)
        hash_val == PyHash(seed, cs.val) % 100
    IN  IF ~cs.ok THEN cs
        ELSE IF cs.val # <<>>
             THEN IF hash_val < 50 THEN Ok("Narrow Body")
                  ELSE IF hash_val < 80 THEN Ok("Wide Body")
                  ELSE IF hash_val < 95 THEN Ok("Regional")
                  ELSE Ok("Cargo")
        ELSE IF altitude.t # "num" THEN Raise("TypeError")
        ELSE IF altitude.v > 10000 /\ velocity.t # "num" THEN Raise("TypeError")
        ELSE IF altitude.v > 10000 /\ velocity.v > 200 THEN Ok("Wide Body")
        ELSE IF altitude.v > 5000 THEN Ok("Narrow Body")
        ELSE Ok("Regional")

-----------------------------------------------------------------------------
(* JSON text.  A JSON document is a sequence of tokens; json.loads parses   *)
(* an object of flight fields or null and raises on anything else.          *)

LBrace == [tok |-> "{"]
RBrace == [tok |-> "}"]
Pair(k, v) == [tok |-> "pair", k |-> k, v |-> v]
NullTok == [tok |-> "null"]
Junk == [tok |-> "junk"]

IsObjectText(s) ==
    /\ Len(s) >= 2
    /\ s[1] = LBrace
    /\ s[Len(s)] = RBrace
    /\ \A i \in 2..(Len(s) - 1) : s[i].tok = "pair"

\* json.loads(text): a repeated key keeps its last value
json_loads(s) ==
    IF s = <<NullTok>> THEN Ok(Null)
    ELSE IF IsObjectText(s)
    THEN Ok(Obj([k \in FlightKeys |->
                  IF \E i \in 2..(Len(s) - 1) : s[i].k = k
                  THEN s[CHOOSE i \in 2..(Len(s) - 1) :
                             s[i].k = k /\ \A j \in (i + 1)..(Len(s) - 1) : s[j].k # k].v
                  ELSE Missing]))
    ELSE Raise("JSONDecodeError")

\* base64.b64decode(text).decode('utf-8'): the text wrapped by a "b64" token
b64decode(s) ==
    IF Len(s) = 1 /\ s[1].tok = "b64" THEN Ok(s[1].of) ELSE Raise("binascii.Error")

-----------------------------------------------------------------------------
(* fleet-stats: the aggregate store *)

NewStats ==
    [by_airline |-> <<>>, by_destination |-> <<>>, by_origin |-> <<>>,
     by_aircraft_type |-> <<>>, total_active |-> 0, last_update |-> "None"]

\* One dimension is a dict bucket -> record, kept as the sequence of its
\* items in insertion order.
HasKey(dim, b) == \E i \in 1..Len(dim) : dim[i].key = b
Idx(dim, b) == CHOOSE i \in 1..Len(dim) : dim[i].key = b
NewRecord(b) ==
    [key |-> b, count |-> 0, total_altitude |-> 0, total_velocity |-> 0, samples |-> 0]

RECURSIVE SumCounts(_)
SumCounts(dim) == IF dim = <<>> THEN 0 ELSE Head(dim).count + SumCounts(Tail(dim))

\* lines 252-261: create the record on first observation, count += 1, samples += 1
Touch(dim, b) ==
    LET d == IF HasKey(dim, b) THEN dim ELSE Append(dim, NewRecord(b))
        i == Idx(d, b)
    IN  [d EXCEPT ![i].count = @ + 1, ![i].samples = @ + 1]

\* AddMetric with = in place of +=
AddMetric_Overwrite(dim, b, field, value) ==
    IF ~Truthy(value) THEN Ok(dim)
    ELSE IF value.t # "num" THEN Raise(dim)
    ELSE Ok([dim EXCEPT ![CHOOSE i \in 1..Len(dim) : dim[i].key = b][field] = value.v])

\* if flight.get(name): record[field] += flight[name]  (int + str raises TypeError)
AddMetric(dim, b, field, value) ==
    IF ~Truthy(value) THEN Ok(dim)
    ELSE IF value.t # "num" THEN Raise(dim)
    ELSE Ok([dim EXCEPT ![Idx(dim, b)][field] = @ + value.v])

\* The update of one dimension's record for one event (lines 251-266, and the
\* same statements for the other three dimensions).  A raise leaves the
\* statements before it applied.
UpdateDimension(dim, b, flight) ==
    LET d1 == Touch(dim, b)
        r2 == AddMetric(d1, b, "total_altitude", Get(flight, "baro_altitude", Null))
    IN  IF ~r2.ok THEN r2
        ELSE AddMetric(r2.val, b, "total_velocity", Get(flight, "velocity", Null))

\* lines 228-241: the flight payload of a request body
ExtractFlight(body) ==
    IF body.data.t # "missing"
    THEN IF body.data.t = "str" THEN json_loads(body.data.v) ELSE Ok(body.data)
    ELSE IF body.data_base64.t # "missing"
    THEN IF body.data_base64.t # "str" THEN Raise("TypeError")
         ELSE LET decoded == b64decode(body.data_base64.v)
              IN  IF decoded.ok THEN json_loads(decoded.val) ELSE decoded
    ELSE Ok(Obj(body.fields))

\* json.dumps(stats) and json.loads of its text.  The text of a dict is the
\* function from its keys to the texts of its values; a number is written
\* as its decimal digits, None and null as the word null, the float of
\* time.time() as one token.
JsonNull == <<"n", "u", "l", "l">>
TimeText == <<"t">>
\* a writer that loses the number of samples
DumpRecord_NoSamples(r) ==
    [key |-> r.key, count |-> IntToStr(r.count),
     total_altitude |-> IntToStr(r.total_altitude),
     total_velocity |-> IntToStr(r.total_velocity),
     samples |-> IntToStr(0)]
DumpRecord(r) ==
    [key |-> r.key, count |-> IntToStr(r.count),
     total_altitude |-> IntToStr(r.total_altitude),
     total_velocity |-> IntToStr(r.total_velocity),
     samples |-> IntToStr(r.samples)]
LoadRecord(t) ==
    [key |-> t.key, count |-> DigitsToInt(t.count, 0),
     total_altitude |-> DigitsToInt(t.total_altitude, 0),
     total_velocity |-> DigitsToInt(t.total_velocity, 0),
     samples |-> DigitsToInt(t.samples, 0)]
DumpValue(k, v) ==
    IF k = "total_active" THEN IntToStr(v)
    ELSE IF k = "last_update" THEN (IF v = "None" THEN JsonNull ELSE TimeText)
    ELSE [i \in 1..Len(v) |-> DumpRecord(v[i])]
LoadValue(k, t) ==
    IF k = "total_active" THEN DigitsToInt(t, 0)
    ELSE IF k = "last_update" THEN (IF t = JsonNull THEN "None" ELSE "time")
    ELSE [i \in 1..Len(t) |-> LoadRecord(t[i])]
json_dumps_stats(st) == [k \in DOMAIN st |-> DumpValue(k, st[k])]
json_loads_stats(text) == [k \in DOMAIN text |-> LoadValue(k, text[k])]

\* save_stats_to_state(): last_update is set before the write is tried; a
\* failed write is caught and printed.  putOk: the store accepts the write.
SetLastUpdate(st) ==
    IF "last_update" \in DOMAIN st THEN [st EXCEPT !.last_update = "time"]
    ELSE [k \in DOMAIN st \cup {"last_update"} |->
             IF k = "last_update" THEN "time" ELSE st[k]]
save_stats_to_state(st, putOk) ==
    [stats |-> SetLastUpdate(st), wrote |-> putOk,
     bytes |-> json_dumps_stats(SetLastUpdate(st))]

\* flight_update_handler of fleet-stats, on the stats st.  The result holds
\* the stats left behind, the acknowledgment, whether a write to the store
\* was attempted, whether it succeeded and the value written.
FleetResult(st, ack, attempted, wrote, bytes) ==
    [stats |-> st, ack |-> ack, attempted |-> attempted, wrote |-> wrote, bytes |-> bytes]

\* a handler without the except clause: the exception reaches the caller
FleetError_Raising(st) == FleetResult(st, "raised", FALSE, FALSE, <<>>)
\* lines 330-332
FleetError(st) == FleetResult(st, "error", FALSE, FALSE, <<>>)

\* lines 244-249
Classify(seed, flight) ==
    [airline |-> get_airline_from_callsign(Get(flight, "callsign", Str(<<>>))),
     destination |-> infer_destination_from_flight(flight),
     origin |-> infer_origin_from_flight(seed, flight),
     aircraft_type |-> infer_aircraft_type_from_flight(seed, flight)]

Classified(c) == c.airline.ok /\ c.destination.ok /\ c.origin.ok /\ c.aircraft_type.ok

BucketsOf(c) ==
    [by_airline |-> c.airline.val, by_destination |-> c.destination.val,
     by_origin |-> c.origin.val, by_aircraft_type |-> c.aircraft_type.val]

\* The dimensions in the order the handler updates them
DimensionOrder == <<"by_airline", "by_destination", "by_origin", "by_aircraft_type">>

\* lines 251-317: the four updates in order, from the i-th on; a raise in
\* one ends the sequence and leaves the earlier ones applied.  stats without
\* the dimension's key raises KeyError.
RECURSIVE UpdateDimensions(_, _, _, _)
UpdateDimensions(st, flight, buckets, i) ==
    IF i > Len(DimensionOrder) THEN Ok(st)
    ELSE IF DimensionOrder[i] \notin DOMAIN st THEN Raise(st)
    ELSE LET d == DimensionOrder[i]
             r == UpdateDimension(st[d], buckets[d], flight)
         IN  IF r.ok THEN UpdateDimensions([st EXCEPT ![d] = r.val], flight, buckets, i + 1)
             ELSE Raise([st EXCEPT ![d] = r.val])

\* RecountAndPersist answering with the error of a failed write
RecountAndPersist_Propagating(st, putOk) ==
    LET s5 == [st EXCEPT !.total_active = SumCounts(st.by_airline)]
    IN  IF s5.total_active % 10 = 0
        THEN FleetResult(save_stats_to_state(s5, putOk).stats,
                         IF putOk THEN "success" ELSE "error", TRUE,
                         save_stats_to_state(s5, putOk).wrote,
                         save_stats_to_state(s5, putOk).bytes)
        ELSE FleetResult(s5, "success", FALSE, FALSE, <<>>)

\* lines 319-328
RecountAndPersist(st, putOk) ==
    LET s5 == [st EXCEPT !.total_active = SumCounts(st.by_airline)]
    IN  IF s5.total_active % 10 = 0
        THEN FleetResult(save_stats_to_state(s5, putOk).stats, "success", TRUE,
                         save_stats_to_state(s5, putOk).wrote,
                         save_stats_to_state(s5, putOk).bytes)
        ELSE FleetResult(s5, "success", FALSE, FALSE, <<>>)

HandleUpdated(updated, putOk) ==
    IF updated.ok THEN RecountAndPersist(updated.val, putOk) ELSE FleetError(updated.val)

HandleClassified(st, flight, c, putOk) ==
    IF Classified(c)
    THEN HandleUpdated(UpdateDimensions(st, flight, BucketsOf(c), 1), putOk)
    ELSE FleetError(st)

HandleFlight(st, seed, fl, putOk) ==
    IF fl.ok /\ fl.val.t = "obj"
    THEN HandleClassified(st, fl.val.v, Classify(seed, fl.val.v), putOk)
    ELSE FleetError(st)

fleet_flight_update_handler(st, seed, body, putOk) ==
    HandleFlight(st, seed, ExtractFlight(body), putOk)

\* load_stats_from_state() at startup, on the freshly constructed stats.
\* getOk: the store answers the read.  An absent value leaves stats as
\* constructed; a read error, bytes that do not decode and a document
\* without stats['total_active'] (read by the print inside the try) reset it
\* to the empty stats; any other document becomes stats as it is.
Absent == [t |-> "absent"]
Undecodable == [t |-> "undecodable"]
\* the bytes of the JSON text of a document: a dict is the function from
\* its keys, any other JSON value a tagged value
Bytes(st) == [t |-> "bytes", v |-> st]
IsDict(doc) == "t" \notin DOMAIN doc
load_stats_from_state(value, getOk) ==
    IF ~getOk THEN NewStats
    ELSE IF value.t = "absent" THEN NewStats
    ELSE IF value.t = "undecodable" THEN NewStats
    ELSE IF ~IsDict(value.v) THEN NewStats
    ELSE IF "total_active" \notin DOMAIN value.v THEN NewStats
    ELSE json_loads_stats(value.v)

-----------------------------------------------------------------------------
(* fleet-stats: queries *)

\* Round2 cutting the quotient off after the second decimal
Round2_Truncating(total, samples) == (total * 100) \div samples

\* round(total / samples, 2), in hundredths: the nearest hundredth, a tie
\* going to the even one (an integer total gives a tie only when samples is a
\* multiple of 8).
Round2(total, samples) ==
    LET n == total * 100
        q == n \div samples
        r == n % samples
    IN  IF 2 * r > samples THEN q + 1
        ELSE IF 2 * r < samples THEN q
        ELSE IF q % 2 = 0 THEN q ELSE q + 1

\* data['total_x'] / data['samples'] if data['samples'] > 0 else 0, rounded
Average(total, samples) == IF samples > 0 THEN Round2(total, samples) ELSE 0

\* The loop body shared by the breakdown queries: one bucket's entry.
\* avg_altitude and avg_velocity are in hundredths.
BucketStats(data) ==
    [key |-> data.key, count |-> data.count,
     avg_altitude |-> Average(data.total_altitude, data.samples),
     avg_velocity |-> Average(data.total_velocity, data.samples)]

Breakdown(dim) == [i \in 1..Len(dim) |-> BucketStats(dim[i])]

get_by_airline(st) == Breakdown(st.by_airline)
get_by_destination(st) == Breakdown(st.by_destination)
get_by_origin(st) == Breakdown(st.by_origin)
get_by_aircraft_type(st) == Breakdown(st.by_aircraft_type)

\* InsertByCount putting an item before the items of equal count
RECURSIVE InsertByCount_TiesReversed(_, _)
InsertByCount_TiesReversed(sorted, x) ==
    IF sorted = <<>> THEN <<x>>
    ELSE IF Head(sorted).count > x.count
         THEN <<Head(sorted)>> \o InsertByCount_TiesReversed(Tail(sorted), x)
    ELSE <<x>> \o sorted

\* list.sort(key=count, reverse=True): stable, equal counts keep their order
RECURSIVE InsertByCount(_, _)
InsertByCount(sorted, x) ==
    IF sorted = <<>> THEN <<x>>
    ELSE IF Head(sorted).count >= x.count
         THEN <<Head(sorted)>> \o InsertByCount(Tail(sorted), x)
    ELSE <<x>> \o sorted

RECURSIVE SortByCountDesc(_)
SortByCountDesc(items) ==
    IF items = <<>> THEN <<>>
    ELSE InsertByCount(SortByCountDesc(SubSeq(items, 1, Len(items) - 1)), items[Len(items)])

Keys(items) == [i \in 1..Len(items) |-> items[i].key]

get_summary(st) ==
    LET by == Breakdown(st.by_airline)
        over == SelectSeq(by, LAMBDA x : x.count > 10)
    IN  [total_active_flights |-> st.total_active,
         by_airline |-> by,
         airlines_with_10_plus_flights |-> Keys(SortByCountDesc(over))]

\* get_airlines_with_min_flights keeping the airlines with count >= min_flights
get_airlines_with_min_flights_inclusive(st, min_flights) ==
    LET over == SelectSeq(Breakdown(st.by_airline), LAMBDA x : x.count >= min_flights)
    IN  [min_flights |-> min_flights,
         airlines |-> SortByCountDesc(over),
         count |-> Len(over)]

get_airlines_with_min_flights(st, min_flights) ==
    LET over == SelectSeq(Breakdown(st.by_airline), LAMBDA x : x.count > min_flights)
    IN  [min_flights |-> min_flights,
         airlines |-> SortByCountDesc(over),
         count |-> Len(over)]

-----------------------------------------------------------------------------
(* emergency-alert *)

EMERGENCY_SQUAWK_CODES ==
    <<[code |-> <<"7", "7", "0", "0">>, description |-> "General Emergency"],
      [code |-> <<"7", "5", "0", "0">>, description |-> "Aircraft Hijacking"],
      [code |-> <<"7", "6", "0", "0">>, description |-> "Radio Communication Failure"]>>

IsEmergencyCode(s) ==
    \E i \in 1..Len(EMERGENCY_SQUAWK_CODES) : EMERGENCY_SQUAWK_CODES[i].code = s
DescriptionOf(s) ==
    EMERGENCY_SQUAWK_CODES[CHOOSE i \in 1..Len(EMERGENCY_SQUAWK_CODES) :
                               EMERGENCY_SQUAWK_CODES[i].code = s].description

\* alert_history = deque(maxlen=100)
HistoryMax == 100

Unknown == Str(<<"u", "n", "k", "n", "o", "w", "n">>)

\* The clock's resolution: a reading t of datetime.utcnow() is second
\* t \div TicksPerSecond and fraction t % TicksPerSecond of that second.
TicksPerSecond == 2

\* The seconds of a reading, zero-padded to a fixed width as the date and
\* time fields of isoformat() are
Padded(digits) ==
    IF Len(digits) >= 4 THEN digits
    ELSE SubSeq(<<"0", "0", "0", "0">>, 1, 4 - Len(digits)) \o digits

\* datetime.isoformat(): the fraction of the second is left out, with its
\* point, when it is zero
isoformat(t) ==
    IF t % TicksPerSecond = 0 THEN Padded(IntToStr(t \div TicksPerSecond))
    ELSE Padded(IntToStr(t \div TicksPerSecond)) \o <<".">>
             \o IntToStr(t % TicksPerSecond)

\* ord() of the characters of a timestamp
CodePoint(c) ==
    CASE c = "." -> 46
      [] c = "Z" -> 90
      [] OTHER -> 48 + DigitVal(c)

\* a < b for two strings: by code point, a proper prefix being smaller
RECURSIVE StrLess(_, _)
StrLess(a, b) ==
    IF b = <<>> THEN FALSE
    ELSE IF a = <<>> THEN TRUE
    ELSE IF Head(a) # Head(b) THEN CodePoint(Head(a)) < CodePoint(Head(b))
    ELSE StrLess(Tail(a), Tail(b))

\* str(x) of a string or a non-negative integer
PyStr(x) == IF x.t = "str" THEN x.v ELSE IntToStr(x.v)

\* check_emergency_squawk without the strip()
check_emergency_squawk_unstripped(flight_data) ==
    LET squawk == Get(flight_data, "squawk", Null)
    IN  IF ~Truthy(squawk) THEN <<>>
        ELSE IF IsEmergencyCode(PyStr(squawk)) THEN PyStr(squawk)
        ELSE <<>>

\* check_emergency_squawk(flight_data): the code, or <<>> for None
check_emergency_squawk(flight_data) ==
    LET squawk == Get(flight_data, "squawk", Null)
        squawk_str == Strip(PyStr(squawk))
    IN  IF ~Truthy(squawk) THEN <<>>
        ELSE IF IsEmergencyCode(squawk_str) THEN squawk_str
        ELSE <<>>

\* get_alert_id naming the alert after the aircraft alone
get_alert_id_by_aircraft(flight_data, t) ==
    [icao24 |-> Get(flight_data, "icao24", Unknown), ts |-> <<>>]

\* get_alert_id(flight_data), t being the reading of datetime.utcnow():
\* the string f"{icao24}-{timestamp}" is the pair of its two parts
get_alert_id(flight_data, t) ==
    [icao24 |-> Get(flight_data, "icao24", Unknown), ts |-> isoformat(t)]

\* lines 76-88: the flight data of a request body.  A data string that does
\* not parse is passed on as it is; without a data key the body itself is
\* the flight data.
AlertExtract(body) ==
    IF body.data.t # "missing"
    THEN IF body.data.t = "str"
         THEN LET parsed == json_loads(body.data.v)
              IN  IF parsed.ok THEN parsed.val ELSE body.data
         ELSE body.data
    ELSE [t |-> "body", v |-> body.fields,
          nonempty |-> body.data_base64.t # "missing" \/ Truthy(Obj(body.fields))]

\* not flight_data
NoFlightData(fd) == IF fd.t = "body" THEN ~fd.nonempty ELSE ~Truthy(fd)

\* lines 102-116
AlertRecord(flight_data, alert_id, squawk_code, t) ==
    [alert_id |-> alert_id,
     timestamp |-> isoformat(t) \o <<"Z">>,
     squawk_code |-> squawk_code,
     description |-> DescriptionOf(squawk_code),
     flight |-> [icao24 |-> Get(flight_data, "icao24", Unknown),
                 callsign |-> Get(flight_data, "callsign", Unknown),
                 latitude |-> Get(flight_data, "latitude", Null),
                 longitude |-> Get(flight_data, "longitude", Null),
                 baro_altitude |-> Get(flight_data, "baro_altitude", Null),
                 velocity |-> Get(flight_data, "velocity", Null),
                 origin_country |-> Get(flight_data, "origin_country", Unknown)]]

\* StoreActive as active_alerts.setdefault(alert_id, alert_record)
StoreActive_KeepFirst(active, alert_id, alert_record) ==
    [x \in DOMAIN active \cup {alert_id} |->
        IF x \in DOMAIN active THEN active[x] ELSE alert_record]

\* active_alerts[alert_id] = alert_record
StoreActive(active, alert_id, alert_record) ==
    [x \in DOMAIN active \cup {alert_id} |->
        IF x = alert_id THEN alert_record ELSE active[x]]

\* HistoryAppend on a deque without maxlen
HistoryAppend_Unbounded(history, alert_record) == Append(history, alert_record)

\* alert_history.append(alert_record.copy()) on a deque(maxlen=100)
HistoryAppend(history, alert_record) ==
    IF Len(history) >= HistoryMax
    THEN Append(Tail(history), alert_record)
    ELSE Append(history, alert_record)

AlertResult(active, history, resp) ==
    [active |-> active, history |-> history, resp |-> resp]

\* flight_update_handler of emergency-alert; t1 and t2 are the readings of
\* datetime.utcnow() at lines 45 and 104
alert_flight_update_handler(active, history, body, t1, t2) ==
    LET fd == AlertExtract(body)
        flight_data == fd.v
        squawk_code == check_emergency_squawk(flight_data)
        alert_id == get_alert_id(flight_data, t1)
        alert_record == AlertRecord(flight_data, alert_id, squawk_code, t2)
    IN  IF NoFlightData(fd)
        THEN AlertResult(active, history, [op |-> "flight-update", status |-> "error"])
        ELSE IF fd.t \notin {"obj", "body"}
        THEN AlertResult(active, history, [op |-> "flight-update", status |-> "error"])
        ELSE IF squawk_code # <<>>
        THEN AlertResult(StoreActive(active, alert_id, alert_record),
                         HistoryAppend(history, alert_record),
                         [op |-> "flight-update", status |-> "alert_created",
                          alert_id |-> alert_id, squawk_code |-> squawk_code])
        ELSE AlertResult(active, history, [op |-> "flight-update", status |-> "success"])

\* The DELETE routes in declaration order; a path is the segment after
\* /api/v1/alerts/.  {alert_id} matches every segment.
ClearAllSegment == [literal |-> "clear-all"]
delete_routes ==
    <<[pattern |-> "{alert_id}", handler |-> "clear_alert"],
      [pattern |-> "clear-all", handler |-> "clear_all_alerts"]>>
Matches(route, segment) ==
    IF route.pattern = "{alert_id}" THEN TRUE ELSE segment = ClearAllSegment
Dispatch(segment) ==
    delete_routes[CHOOSE i \in 1..Len(delete_routes) :
                      /\ Matches(delete_routes[i], segment)
                      /\ \A j \in 1..(i - 1) : ~Matches(delete_routes[j], segment)].handler

\* clear_alert emptying the active map when the ID is present
clear_alert_everything(active, alert_id) ==
    IF alert_id \in DOMAIN active
    THEN [active |-> <<>>, resp |-> [op |-> "clear_alert", status |-> "success"]]
    ELSE [active |-> active, resp |-> [op |-> "clear_alert", status |-> "error"]]

\* clear_alert as active_alerts.pop(alert_id, None)
clear_alert_pop(active, alert_id) ==
    [active |-> [x \in DOMAIN active \ {alert_id} |-> active[x]],
     resp |-> [op |-> "clear_alert", status |-> "success"]]

clear_alert(active, alert_id) ==
    IF alert_id \in DOMAIN active
    THEN [active |-> [x \in DOMAIN active \ {alert_id} |-> active[x]],
          resp |-> [op |-> "clear_alert", status |-> "success"]]
    ELSE [active |-> active, resp |-> [op |-> "clear_alert", status |-> "error"]]

clear_all_alerts(active) ==
    [active |-> <<>>,
     resp |-> [op |-> "clear_all_alerts", status |-> "success",
               count |-> Cardinality(DOMAIN active)]]

\* history_list.sort(key=timestamp, reverse=True): stable, records with
\* equal timestamps keep the order they have in the deque
RECURSIVE InsertByTimestamp(_, _)
InsertByTimestamp(sorted, x) ==
    IF sorted = <<>> THEN <<x>>
    ELSE IF StrLess(Head(sorted).timestamp, x.timestamp)
         THEN <<x>> \o sorted
    ELSE <<Head(sorted)>> \o InsertByTimestamp(Tail(sorted), x)

RECURSIVE SortByTimestampDesc(_)
SortByTimestampDesc(items) ==
    IF items = <<>> THEN <<>>
    ELSE InsertByTimestamp(SortByTimestampDesc(SubSeq(items, 1, Len(items) - 1)),
                           items[Len(items)])

\* list[:limit]: a negative limit counts from the end of the list
SliceTo(list, limit) ==
    IF limit >= 0 THEN SubSeq(list, 1, IF limit < Len(list) THEN limit ELSE Len(list))
    ELSE SubSeq(list, 1, IF Len(list) + limit > 0 THEN Len(list) + limit ELSE 0)

\* the limit of a history query that names none
DefaultLimit == 50

\* get_alert_history(limit)
get_alert_history(history, limit) ==
    [op |-> "get_alert_history",
     history |-> SliceTo(SortByTimestampDesc(history), limit),
     count |-> Len(SliceTo(SortByTimestampDesc(history), limit)),
     total |-> Len(history)]

-----------------------------------------------------------------------------
(* Requests.  An event is a flight dict and the way the request body wraps  *)
(* it: as the body itself, under data as an object or as JSON text, under    *)
(* data_base64, or a body carrying no flight at all.                         *)

KeyOrder == <<"icao24", "callsign", "squawk", "latitude", "longitude",
              "baro_altitude", "velocity", "origin_country">>

\* json.dumps(flight)
RECURSIVE DumpPairs(_, _)
DumpPairs(flight, i) ==
    IF i > Len(KeyOrder) THEN <<>>
    ELSE IF flight[KeyOrder[i]].t = "missing" THEN DumpPairs(flight, i + 1)
    ELSE <<Pair(KeyOrder[i], flight[KeyOrder[i]])>> \o DumpPairs(flight, i + 1)
json_dumps(flight) == <<LBrace>> \o DumpPairs(flight, 1) \o <<RBrace>>

b64encode(text) == <<[tok |-> "b64", of |-> text]>>

BodyOf(event) ==
    CASE event.wrap = "direct" ->
           [data |-> Missing, data_base64 |-> Missing, fields |-> event.flight]
      [] event.wrap = "data_obj" ->
           [data |-> Obj(event.flight), data_base64 |-> Missing, fields |-> EmptyDict]
      [] event.wrap = "data_str" ->
           [data |-> Str(json_dumps(event.flight)), data_base64 |-> Missing,
            fields |-> EmptyDict]
      [] event.wrap = "data_base64" ->
           [data |-> Missing, data_base64 |-> Str(b64encode(json_dumps(event.flight))),
            fields |-> EmptyDict]
      [] event.wrap = "data_null" ->
           [data |-> Null, data_base64 |-> Missing, fields |-> EmptyDict]
      [] event.wrap = "data_junk" ->
           [data |-> Str(<<Junk>>), data_base64 |-> Missing, fields |-> EmptyDict]

Event(flight, wrap) == [flight |-> flight, wrap |-> wrap]

Flight(icao24, callsign, squawk, baro_altitude, velocity) ==
    [EmptyDict EXCEPT !.icao24 = icao24, !.callsign = callsign, !.squawk = squawk,
                      !.baro_altitude = baro_altitude, !.velocity = velocity]

ABC123 == Str(<<"a", "b", "c", "1", "2", "3">>)
DEF456 == Str(<<"d", "e", "f", "4", "5", "6">>)
DL100 == Str(<<"D", "L", "1", "0", "0">>)
DL101 == Str(<<"D", "L", "1", "0", "1">>)
UA200 == Str(<<"U", "A", "2", "0", "0">>)

FlightDL100 == Flight(ABC123, DL100, Missing, Num(10000), Num(250))
FlightDL101 == Flight(DEF456, DL101, Missing, Num(11000), Missing)
FlightUA200 == Flight(Missing, UA200, Missing, Num(9000), Missing)
\* no altitude and no velocity
FlightNoMetric == Flight(ABC123, DL100, Missing, Missing, Null)
\* a non-numeric altitude
FlightBadAltitude == Flight(ABC123, DL100, Missing, Str(<<"a", "b", "c">>), Missing)
\* a non-numeric velocity after a numeric altitude; a one-letter callsign
FlightBadVelocity == Flight(DEF456, Str(<<"X">>), Missing, Num(5000), Str(<<"f">>))
\* a position 0.06 degree from KJFK, a padded callsign, an origin country
FlightPositioned ==
    [Flight(ABC123, Str(<<" ", "Q", "F", "1", " ">>), Missing, Num(9000), Num(200))
        EXCEPT !.latitude = Num(407000), !.longitude = Num(-737800),
               !.origin_country = [t |-> "name", v |-> "United States"]]
\* a null callsign
FlightNullCallsign == Flight(ABC123, Null, Missing, Num(9000), Missing)

FleetEvents ==
    <<Event(FlightDL100, "direct"),
      Event(FlightDL101, "direct"),
      Event(FlightUA200, "direct"),
      Event(FlightUA200, "data_str"),
      Event(FlightDL101, "data_base64"),
      Event(FlightNoMetric, "direct"),
      Event(FlightBadAltitude, "direct"),
      Event(FlightBadVelocity, "data_obj"),
      Event(FlightPositioned, "data_obj"),
      Event(FlightNullCallsign, "direct"),
      Event(EmptyDict, "direct"),
      Event(EmptyDict, "data_null"),
      Event(EmptyDict, "data_junk")>>

-----------------------------------------------------------------------------
(* Bounds *)

MaxFleetEvents == 3     \* flight-update requests handled by fleet-stats
MaxHashSeed == 1        \* the processes' hash seeds are 0..MaxHashSeed
MaxMinFlights == 2      \* min_flights of the threshold query is 0..MaxMinFlights

-----------------------------------------------------------------------------
(* fleet-stats: state machine *)

NoResponse == [op |-> "none"]

Dimensions == {"by_airline", "by_destination", "by_origin", "by_aircraft_type"}

\* the event loop is not inside a call of dapr_client.save_state
NotSaving == [pending |-> FALSE]

NoTally == [classified |-> 0, acked |-> 0, counted |-> 0, metric |-> 0]
TallyOf(k) == IF k \in DOMAIN tally.seen THEN tally.seen[k] ELSE NoTally

Init ==
    /\ stats = NewStats
    /\ hashSeed \in 0..MaxHashSeed
    /\ store = Absent
    /\ fleetResp = NoResponse
    /\ tally = [fromEmpty |-> TRUE, seen |-> <<>>, written |-> <<>>]
    /\ nFleet = 0
    /\ handled = [e \in 1..Len(FleetEvents) |-> 0]
    /\ saving = NotSaving
    /\ active_alerts = <<>>
    /\ alert_history = <<>>
    /\ now = 0
    /\ alertResp = NoResponse
    /\ alertReq = [op |-> "none"]
    /\ nAlert = 0

CountOf(dim, b) == IF HasKey(dim, b) THEN dim[Idx(dim, b)].count ELSE 0

\* tally.written holds the stats as they were in memory at the last
\* successful write to the external store.
\* The history of one handled request: per dimension, the bucket the event
\* was classified to, whether the request was acknowledged with success,
\* whether the bucket's count grew, and whether the event supplied a metric.
HasMetric(flight) ==
    \/ Get(flight, "baro_altitude", Null).t \notin {"null", "missing"}
    \/ Get(flight, "velocity", Null).t \notin {"null", "missing"}

DimensionOf(st, d) == IF d \in DOMAIN st THEN st[d] ELSE <<>>

Bump(old, grew, acked, hasMetric) ==
    [classified |-> old.classified + 1,
     acked |-> old.acked + (IF acked THEN 1 ELSE 0),
     counted |-> old.counted + (IF grew THEN 1 ELSE 0),
     metric |-> old.metric + (IF grew /\ hasMetric THEN 1 ELSE 0)]

TalliedBuckets(st, flight, touched, res) ==
    [tally EXCEPT !.seen =
        [k \in DOMAIN tally.seen \cup touched |->
            IF k \in touched
            THEN Bump(TallyOf(k),
                      CountOf(DimensionOf(res.stats, k[1]), k[2])
                          > CountOf(DimensionOf(st, k[1]), k[2]),
                      res.ack = "success", HasMetric(flight))
            ELSE tally.seen[k]]]

TalliedClassified(st, flight, c, res) ==
    IF Classified(c)
    THEN TalliedBuckets(st, flight, {<<d, BucketsOf(c)[d]>> : d \in Dimensions}, res)
    ELSE tally

TalliedFlight(st, seed, fl, res) ==
    IF fl.ok /\ fl.val.t = "obj"
    THEN TalliedClassified(st, fl.val.v, Classify(seed, fl.val.v), res)
    ELSE tally

Tallied(st, seed, body, res) == TalliedFlight(st, seed, ExtractFlight(body), res)

\* POST /flight-update
FleetApply(e, body, res) ==
    /\ stats' = res.stats
    /\ store' = IF res.wrote THEN Bytes(res.bytes) ELSE store
    /\ fleetResp' = [op |-> "flight-update", status |-> res.ack,
                     attempted |-> res.attempted, wrote |-> res.wrote]
    /\ tally' = [Tallied(stats, hashSeed, body, res)
                     EXCEPT !.written = IF res.wrote THEN <<res.stats>> ELSE @]
    /\ nFleet' = nFleet + 1
    /\ handled' = [handled EXCEPT ![e] = @ + 1]
    /\ UNCHANGED <<hashSeed, saving, alertVars>>

FleetFlightUpdate(e, putOk) ==
    /\ nFleet < MaxFleetEvents
    /\ FleetApply(e, BodyOf(FleetEvents[e]),
                  fleet_flight_update_handler(stats, hashSeed, BodyOf(FleetEvents[e]), putOk))

\* The process ends and a new one starts: stats is constructed empty and
\* startup() loads it from the state store.
FleetRestart(seed, getOk) ==
    LET loaded == load_stats_from_state(store, getOk)
    IN  /\ stats' = loaded
        /\ hashSeed' = seed
        /\ fleetResp' = NoResponse
        /\ tally' = [fromEmpty |-> tally.fromEmpty /\ loaded = NewStats, seen |-> <<>>,
                     written |-> tally.written]
        /\ handled' = [e \in 1..Len(FleetEvents) |-> 0]
        /\ UNCHANGED <<store, nFleet, saving, alertVars>>

FleetQuery(op, body) ==
    /\ fleetResp' = [op |-> op, body |-> body]
    /\ UNCHANGED <<stats, hashSeed, store, tally, nFleet, handled, saving, alertVars>>

GetSummary == FleetQuery("summary", get_summary(stats))
GetByAirline == FleetQuery("by-airline", get_by_airline(stats))
GetByDestination == FleetQuery("by-destination", get_by_destination(stats))
GetByOrigin == FleetQuery("by-origin", get_by_origin(stats))
GetByAircraftType == FleetQuery("by-aircraft-type", get_by_aircraft_type(stats))
GetAirlinesWithMinFlights(n) ==
    FleetQuery("airlines-with-min-flights", get_airlines_with_min_flights(stats, n))

FleetNext ==
    \/ \E e \in 1..Len(FleetEvents), putOk \in BOOLEAN : FleetFlightUpdate(e, putOk)
    \/ \E seed \in 0..MaxHashSeed, getOk \in BOOLEAN : FleetRestart(seed, getOk)
    \/ GetSummary
    \/ GetByAirline
    \/ GetByDestination
    \/ GetByOrigin
    \/ GetByAircraftType
    \/ \E n \in 0..MaxMinFlights : GetAirlinesWithMinFlights(n)

SpecFleet == Init /\ [][FleetNext]_vars

\* Startup on whatever the external store holds: besides what this service
\* wrote, bytes that do not decode, the JSON texts null and {}, and JSON
\* objects that hold only some of the keys of stats.
ForeignValues ==
    {Undecodable,
     Bytes(Null),
     Bytes(<<>>),
     Bytes([by_airline |-> <<>>, by_destination |-> <<>>, by_origin |-> <<>>,
            by_aircraft_type |-> <<>>, last_update |-> JsonNull]),
     Bytes([total_active |-> IntToStr(0)]),
     Bytes([by_airline |-> <<>>, total_active |-> IntToStr(0), last_update |-> JsonNull])}

\* The value in the external store is replaced by another writer
StoreReplaced(value) ==
    /\ store' = value
    /\ UNCHANGED <<stats, hashSeed, fleetResp, tally, nFleet, handled, saving, alertVars>>

RestoreNext ==
    \/ \E value \in ForeignValues : StoreReplaced(value)
    \/ \E seed \in 0..MaxHashSeed, getOk \in BOOLEAN : FleetRestart(seed, getOk)
    \/ \E e \in 1..Len(FleetEvents), putOk \in BOOLEAN : FleetFlightUpdate(e, putOk)

SpecRestore == Init /\ [][RestoreNext]_vars

\* The long run of two airlines: the events DL100 and UA200, each as the
\* request body itself, and the queries that list airlines over a threshold.
MaxBulkEvents == 23     \* flight-update requests handled in the long run

\* min_flights of a threshold query that names none
DefaultMinFlights == 10

BulkEvents == {1, 3}
BulkThresholds == (DefaultMinFlights - 1)..(DefaultMinFlights + 1)

BulkFlightUpdate(e, putOk) ==
    /\ nFleet < MaxBulkEvents
    /\ FleetApply(e, BodyOf(FleetEvents[e]),
                  fleet_flight_update_handler(stats, hashSeed, BodyOf(FleetEvents[e]), putOk))

BulkNext ==
    \/ \E e \in BulkEvents, putOk \in BOOLEAN : BulkFlightUpdate(e, putOk)
    \/ GetSummary
    \/ \E n \in BulkThresholds : GetAirlinesWithMinFlights(n)

SpecBulk == Init /\ [][BulkNext]_vars

\* The run of one airline up to the first periodic write: the event DL100
\* and the event whose altitude is not a number.
MaxPersistEvents == 11  \* flight-update requests handled in this run

PersistEvents == {1, 7}

PersistFlightUpdate(e, putOk) ==
    /\ nFleet < MaxPersistEvents
    /\ FleetApply(e, BodyOf(FleetEvents[e]),
                  fleet_flight_update_handler(stats, hashSeed, BodyOf(FleetEvents[e]), putOk))

PersistNext ==
    \/ \E e \in PersistEvents, putOk \in BOOLEAN : PersistFlightUpdate(e, putOk)
    \/ GetSummary

SpecPersist == Init /\ [][PersistNext]_vars

\* A run long enough for a write, with restarts of the process
MaxRecoverEvents == 11  \* flight-update requests handled in the run with restarts
RecoverEvents == {1, 3}

RecoverFlightUpdate(e, putOk) ==
    /\ nFleet < MaxRecoverEvents
    /\ FleetApply(e, BodyOf(FleetEvents[e]),
                  fleet_flight_update_handler(stats, hashSeed, BodyOf(FleetEvents[e]), putOk))

RecoverNext ==
    \/ \E e \in RecoverEvents, putOk \in BOOLEAN : RecoverFlightUpdate(e, putOk)
    \/ \E seed \in 0..MaxHashSeed, getOk \in BOOLEAN : FleetRestart(seed, getOk)

SpecRecover == Init /\ [][RecoverNext]_vars

\* A run in which the external store takes its time.  The handlers are
\* coroutines of one event loop (uvicorn.run, line 479);
\* flight_update_handler calls save_stats_to_state() without await and
\* dapr_client.save_state() is a synchronous call, so from the call to its
\* return the loop runs nothing else.
MaxSlowEvents == 11     \* flight-update requests handled in the run with a slow store
SlowEvents == {1, 3}

\* POST /flight-update up to the call of save_state (line 209), or to
\* its end when the total is not a multiple of 10
SlowFlightUpdate(e) ==
    LET res == fleet_flight_update_handler(stats, hashSeed, BodyOf(FleetEvents[e]), TRUE)
    IN  /\ ~saving.pending
        /\ nFleet < MaxSlowEvents
        /\ IF res.attempted
           THEN /\ stats' = res.stats
                /\ saving' = [pending |-> TRUE, e |-> e, before |-> stats]
                /\ UNCHANGED <<hashSeed, store, fleetResp, tally, nFleet, handled, alertVars>>
           ELSE FleetApply(e, BodyOf(FleetEvents[e]), res)

\* dapr_client.save_state returns or raises, and the handler runs to its end
SaveStateReturns(putOk) ==
    LET body == BodyOf(FleetEvents[saving.e])
        res == fleet_flight_update_handler(saving.before, hashSeed, body, putOk)
    IN  /\ saving.pending
        /\ saving' = NotSaving
        /\ store' = IF res.wrote THEN Bytes(res.bytes) ELSE store
        /\ fleetResp' = [op |-> "flight-update", status |-> res.ack,
                         attempted |-> res.attempted, wrote |-> res.wrote]
        /\ tally' = [Tallied(saving.before, hashSeed, body, res)
                         EXCEPT !.written = IF res.wrote THEN <<res.stats>> ELSE @]
        /\ nFleet' = nFleet + 1
        /\ handled' = [handled EXCEPT ![saving.e] = @ + 1]
        /\ UNCHANGED <<stats, hashSeed, alertVars>>

\* GET /api/v1/stats/summary, served by the same event loop
SlowGetSummary == ~saving.pending /\ GetSummary

SlowNext ==
    \/ \E e \in SlowEvents : SlowFlightUpdate(e)
    \/ \E putOk \in BOOLEAN : SaveStateReturns(putOk)
    \/ SlowGetSummary

SpecSlowStore == Init /\ [][SlowNext]_vars

-----------------------------------------------------------------------------
(* emergency-alert: state machine *)

Squawking(flight, s) == [flight EXCEPT !.squawk = s]

S7700 == Str(<<"7", "7", "0", "0">>)
S7500 == Str(<<"7", "5", "0", "0">>)
\* surrounded by whitespace
S7600 == Str(<<" ", "7", "6", "0", "0", " ">>)
S1200 == Str(<<"1", "2", "0", "0">>)
S77000 == Str(<<"7", "7", "0", "0", "0">>)

AlertEvents ==
    <<Event(Squawking(FlightDL100, S7700), "direct"),
      Event(Squawking(FlightDL100, S7500), "direct"),
      Event(Squawking(FlightDL101, S7600), "data_obj"),
      Event(Squawking(FlightUA200, Num(7700)), "data_str"),
      Event(Squawking(FlightDL100, S1200), "direct"),
      Event(Squawking(FlightDL100, S77000), "data_obj"),
      Event(FlightDL100, "direct"),
      Event(Squawking(FlightDL100, Null), "data_str"),
      Event(Squawking(FlightDL100, S7700), "data_base64"),
      Event(EmptyDict, "direct"),
      Event(EmptyDict, "data_null"),
      Event(EmptyDict, "data_junk")>>

MaxAlerts == 2          \* alerts recorded by emergency-alert
MaxClock == 1           \* the clock readings are 0..MaxClock
HistoryRun == 102       \* alerts recorded in the run that fills the history
MaxLimit == 1           \* the limit of a history query is -1..MaxLimit or the default

Min(a, b) == IF a < b THEN a ELSE b

AlertApply(e, res, t2) ==
    /\ alertReq' = [op |-> "flight-update", e |-> e]
    /\ active_alerts' = res.active
    /\ alert_history' = res.history
    /\ alertResp' = res.resp
    /\ now' = IF res.resp.status = "alert_created" THEN t2 ELSE now
    /\ nAlert' = IF res.resp.status = "alert_created" THEN nAlert + 1 ELSE nAlert
    /\ UNCHANGED fleetVars

\* POST /flight-update; t1 >= now and t2 >= t1 are the clock's readings
AlertFlightUpdate(e, t1, t2) ==
    AlertApply(e, alert_flight_update_handler(active_alerts, alert_history,
                                              BodyOf(AlertEvents[e]), t1, t2), t2)

\* DELETE /api/v1/alerts/<segment>
DeleteAlerts(segment) ==
    /\ alertReq' = [op |-> "delete", clear_all |-> segment = ClearAllSegment]
    /\ active_alerts' = IF Dispatch(segment) = "clear_alert"
                        THEN clear_alert(active_alerts, segment).active
                        ELSE clear_all_alerts(active_alerts).active
    /\ alertResp' = IF Dispatch(segment) = "clear_alert"
                    THEN clear_alert(active_alerts, segment).resp
                    ELSE clear_all_alerts(active_alerts).resp
    /\ UNCHANGED <<alert_history, now, nAlert, fleetVars>>

\* GET /api/v1/alerts/active
GetActiveAlerts ==
    /\ alertReq' = [op |-> "get_active_alerts"]
    /\ alertResp' = [op |-> "get_active_alerts", alerts |-> active_alerts,
                     count |-> Cardinality(DOMAIN active_alerts)]
    /\ UNCHANGED <<active_alerts, alert_history, now, nAlert, fleetVars>>

\* GET /api/v1/alerts/history?limit=<limit>
Limits == ((0 - 1)..MaxLimit) \cup {DefaultLimit}
GetAlertHistory(limit) ==
    /\ alertReq' = [op |-> "get_alert_history", limit |-> limit]
    /\ alertResp' = get_alert_history(alert_history, limit)
    /\ UNCHANGED <<active_alerts, alert_history, now, nAlert, fleetVars>>

AlertIds ==
    {[icao24 |-> i, ts |-> isoformat(t)] : i \in {ABC123, DEF456, Unknown}, t \in 0..MaxClock}

AlertNext ==
    \/ \E e \in 1..Len(AlertEvents) :
         \E t1 \in now..Min(now + 1, MaxClock) :
           \E t2 \in t1..Min(t1 + 1, MaxClock) :
              nAlert < MaxAlerts /\ AlertFlightUpdate(e, t1, t2)
    \/ \E segment \in AlertIds \cup {ClearAllSegment} : DeleteAlerts(segment)
    \/ GetActiveAlerts
    \/ \E limit \in Limits : GetAlertHistory(limit)

SpecAlert == Init /\ [][AlertNext]_vars

\* Both services, every request body, a store that fails, is replaced by
\* another writer and is read again at a restart
MaxAckEvents == 2       \* flight-update requests each service handles in that run

\* a document another writer left in the store: stats without the maps
IncompleteValue == Bytes([total_active |-> IntToStr(0)])

AckFleetFlightUpdate(e, putOk) ==
    /\ nFleet < MaxAckEvents
    /\ FleetApply(e, BodyOf(FleetEvents[e]),
                  fleet_flight_update_handler(stats, hashSeed, BodyOf(FleetEvents[e]), putOk))

AckAlertFlightUpdate(e, t) ==
    /\ nAlert < MaxAckEvents
    /\ AlertFlightUpdate(e, t, t)

AckNext ==
    \/ \E e \in 1..Len(FleetEvents), putOk \in BOOLEAN : AckFleetFlightUpdate(e, putOk)
    \/ StoreReplaced(IncompleteValue)
    \/ \E seed \in 0..MaxHashSeed, getOk \in BOOLEAN : FleetRestart(seed, getOk)
    \/ \E e \in 1..Len(AlertEvents) :
         \E t \in now..Min(now + 1, MaxClock) : AckAlertFlightUpdate(e, t)

SpecAck == Init /\ [][AckNext]_vars

\* The run that fills the history: one emergency event again and again, the
\* clock advancing by one between requests.
HistoryNext ==
    nAlert < HistoryRun /\ AlertFlightUpdate(1, now + 1, now + 1)

SpecHistory == Init /\ [][HistoryNext]_vars

-----------------------------------------------------------------------------
(* Claims: fleet-stats *)

RecordOf(dim, b) == IF HasKey(dim, b) THEN dim[Idx(dim, b)] ELSE NewRecord(b)

\* C1: whenever a query can be served, total_active, as stored and as the
\* summary query reports it, is the sum of count over the by_airline records.
C1_TotalActiveIsSum ==
    /\ stats.total_active = SumCounts(stats.by_airline)
    /\ fleetResp.op = "summary" =>
           fleetResp.body.total_active_flights = SumCounts(stats.by_airline)

\* C2: from an empty store, the count of every (dimension, bucket) is the
\* number of processed events classified to it; "processed" read either as
\* every event the handler classified or as every event acknowledged with
\* success, the same way for all buckets.
C2_CountIsEventsClassified ==
    tally.fromEmpty =>
        \/ \A k \in DOMAIN tally.seen :
               RecordOf(stats[k[1]], k[2]).count = tally.seen[k].classified
        \/ \A k \in DOMAIN tally.seen :
               RecordOf(stats[k[1]], k[2]).count = tally.seen[k].acked

\* C3: from an empty store, samples of every (dimension, bucket) is the
\* number of events counted in the bucket that supplied a non-null altitude
\* or velocity.
C3_SamplesCountMetrics ==
    tally.fromEmpty =>
        \A k \in DOMAIN tally.seen :
            RecordOf(stats[k[1]], k[2]).samples = tally.seen[k].metric

\* C4: every breakdown query reports, for every bucket, avg_altitude as
\* total_altitude / samples rounded to 2 decimals (within half a hundredth of
\* the quotient) when samples > 0, and 0 when samples = 0.
BreakdownOps ==
    [o \in {"by-airline", "summary"} |-> "by_airline"]
    @@ ("by-destination" :> "by_destination")
    @@ ("by-origin" :> "by_origin")
    @@ ("by-aircraft-type" :> "by_aircraft_type")

ReportedBuckets == IF fleetResp.op = "summary" THEN fleetResp.body.by_airline
                   ELSE fleetResp.body

IsRoundedQuotient(avg, total, samples) ==
    2 * Abs(avg * samples - 100 * total) <= samples

C4_AverageIsRoundedQuotient ==
    fleetResp.op \in DOMAIN BreakdownOps =>
        LET dim == stats[BreakdownOps[fleetResp.op]]
        IN  /\ Len(ReportedBuckets) = Len(dim)
            /\ \A i \in 1..Len(dim) :
                 /\ ReportedBuckets[i].key = dim[i].key
                 /\ dim[i].samples > 0 =>
                        IsRoundedQuotient(ReportedBuckets[i].avg_altitude,
                                          dim[i].total_altitude, dim[i].samples)
                 /\ dim[i].samples = 0 => ReportedBuckets[i].avg_altitude = 0

\* A by-airline response with an average that is not a whole number
C4_Witness ==
    /\ fleetResp.op = "by-airline"
    /\ \E i \in 1..Len(fleetResp.body) : fleetResp.body[i].avg_altitude % 100 # 0

\* C5: from an empty store, after DL100/10000, DL101/11000 and UA200/9000,
\* once each in any order, by-airline returns Delta with count 2 and average
\* altitude 10500.00 and United with count 1 and 9000.00, and the summary's
\* airlines_with_10_plus_flights is empty.
TheThreeEvents ==
    /\ tally.fromEmpty
    /\ handled[1] = 1
    /\ handled[2] + handled[5] = 1
    /\ handled[3] + handled[4] = 1
    /\ \A e \in 6..Len(FleetEvents) : handled[e] = 0

C5_EndToEnd ==
    TheThreeEvents =>
        /\ fleetResp.op = "by-airline" =>
             /\ Len(fleetResp.body) = 2
             /\ \E i \in 1..2 : /\ fleetResp.body[i].key = "Delta"
                                /\ fleetResp.body[i].count = 2
                                /\ fleetResp.body[i].avg_altitude = 1050000
             /\ \E i \in 1..2 : /\ fleetResp.body[i].key = "United"
                                /\ fleetResp.body[i].count = 1
                                /\ fleetResp.body[i].avg_altitude = 900000
        /\ fleetResp.op = "summary" =>
             fleetResp.body.airlines_with_10_plus_flights = <<>>

C5_Witness == TheThreeEvents /\ fleetResp.op = "by-airline"

-----------------------------------------------------------------------------
(* Claims: emergency-alert *)

\* the clock readings that can follow reading t
Readings(t) == t..(t + 1)

\* The squawk of an event as emergency-alert reads it: from the body itself
\* or from the body's data field
EventSquawk(e) ==
    IF AlertEvents[e].wrap \in {"direct", "data_obj", "data_str"}
    THEN AlertEvents[e].flight.squawk ELSE Missing

\* The squawk, trimmed, equals 7700, 7500 or 7600
TrimmedCode(sq) ==
    CASE sq.t = "str" -> Strip(sq.v)
      [] sq.t = "num" /\ sq.v = 7700 -> <<"7", "7", "0", "0">>
      [] sq.t = "num" /\ sq.v = 7500 -> <<"7", "5", "0", "0">>
      [] sq.t = "num" /\ sq.v = 7600 -> <<"7", "6", "0", "0">>
      [] OTHER -> <<>>
IsEmergencySquawk(sq) ==
    TrimmedCode(sq) \in {<<"7", "7", "0", "0">>, <<"7", "5", "0", "0">>, <<"7", "6", "0", "0">>}
MappedDescription(code) ==
    CASE code = <<"7", "7", "0", "0">> -> "General Emergency"
      [] code = <<"7", "5", "0", "0">> -> "Aircraft Hijacking"
      [] code = <<"7", "6", "0", "0">> -> "Radio Communication Failure"

Newest(history) == history[Len(history)]
Recorded == nAlert' = nAlert + 1

HistoryIds(history) == {history[i].alert_id : i \in 1..Len(history)}

C8_LastWriteWins ==
    [][\A e \in 1..Len(AlertEvents) : \A t1 \in Readings(now) : \A t2 \in Readings(t1) :
         (/\ AlertFlightUpdate(e, t1, t2)
          /\ Recorded
          /\ alertResp'.alert_id \in DOMAIN active_alerts) =>
            /\ DOMAIN active_alerts' = DOMAIN active_alerts
            /\ active_alerts'[alertResp'.alert_id].squawk_code = TrimmedCode(EventSquawk(e))
            /\ active_alerts'[alertResp'.alert_id].timestamp = isoformat(t2) \o <<"Z">>
            /\ active_alerts'[alertResp'.alert_id].flight.callsign
                   = AlertEvents[e].flight.callsign
            /\ \A id \in DOMAIN active_alerts :
                   id # alertResp'.alert_id => active_alerts'[id] = active_alerts[id]
            /\ Len(alert_history') = Len(alert_history) + 1
            /\ SubSeq(alert_history', 1, Len(alert_history)) = alert_history
            /\ Newest(alert_history') = active_alerts'[alertResp'.alert_id]]_vars

\* Two records under one ID with different codes; the active one is the later
C8_Witness ==
    /\ Len(alert_history) = 2
    /\ alert_history[1].alert_id = alert_history[2].alert_id
    /\ alert_history[1].squawk_code # alert_history[2].squawk_code
    /\ alert_history[2].alert_id \in DOMAIN active_alerts
    /\ active_alerts[alert_history[2].alert_id] = alert_history[2]

\* C9: the history never holds more than 100 entries; an alert recorded
\* when it holds 100 evicts the entry inserted earliest and keeps the other
\* 99 in order, followed by the new one.
C9_HistoryBounded ==
    /\ [](Len(alert_history) <= 100)
    /\ [][(Recorded /\ Len(alert_history) = 100) =>
             /\ Len(alert_history') = 100
             /\ SubSeq(alert_history', 1, 99) = SubSeq(alert_history, 2, 100)
             /\ alert_history'[100].alert_id = alertResp'.alert_id
             /\ alert_history'[100].alert_id \notin HistoryIds(alert_history)]_vars

\* The 101st alert has been recorded: the first one is gone
C9_Witness ==
    /\ nAlert = 101
    /\ Len(alert_history) = 100
    /\ alert_history[1].alert_id.ts = isoformat(2)
    /\ alert_history[100].alert_id.ts = isoformat(101)

\* C10: clearing by an ID that is not in the active map returns the error
\* status as an ordinary response and changes neither the active map nor
\* the history.
C10_ClearUnknown ==
    [][\A id \in AlertIds :
         (DeleteAlerts(id) /\ id \notin DOMAIN active_alerts) =>
            /\ alertResp' = [op |-> "clear_alert", status |-> "error"]
            /\ active_alerts' = active_alerts
            /\ alert_history' = alert_history]_vars

\* An unknown ID was cleared while another alert was active
C10_Witness ==
    /\ alertResp = [op |-> "clear_alert", status |-> "error"]
    /\ DOMAIN active_alerts # {}

\* C11: clearing an alert by an ID in the active map removes that entry
\* and leaves every other entry as it was; no DELETE request changes the
\* history; a history query whose limit covers the history returns every
\* recorded alert, whether it is still active or not.
C11_ClearLeavesHistory ==
    [][/\ \A id \in AlertIds :
            (DeleteAlerts(id) /\ id \in DOMAIN active_alerts) =>
               /\ DOMAIN active_alerts' = DOMAIN active_alerts \ {id}
               /\ \A x \in DOMAIN active_alerts' : active_alerts'[x] = active_alerts[x]
               /\ alertResp'.status = "success"
       /\ alertReq'.op = "delete" => alert_history' = alert_history
       /\ \A limit \in Limits :
            (GetAlertHistory(limit) /\ limit >= Len(alert_history)) =>
               /\ Len(alertResp'.history) = Len(alert_history)
               /\ \A i \in 1..Len(alert_history) :
                      \E j \in 1..Len(alertResp'.history) :
                          alertResp'.history[j] = alert_history[i]]_vars

\* The history query returns two alerts, one cleared and one still active
C11_Witness ==
    /\ alertResp.op = "get_alert_history"
    /\ Len(alertResp.history) = 2
    /\ Cardinality(DOMAIN active_alerts) = 1
    /\ \E i \in 1..2 : alertResp.history[i].alert_id \notin DOMAIN active_alerts
    /\ \E i \in 1..2 : alertResp.history[i].alert_id \in DOMAIN active_alerts

\* C12: a DELETE of /api/v1/alerts/clear-all leaves the active map empty
\* and reports how many alerts were active before it.
C12_ClearAllEmpties ==
    [][(DeleteAlerts(ClearAllSegment) /\ alertReq'.clear_all) =>
          /\ active_alerts' = <<>>
          /\ alertResp'.op = "clear_all_alerts"
          /\ alertResp'.status = "success"
          /\ alertResp'.count = Cardinality(DOMAIN active_alerts)]_vars

\* C13: the history query returns at most min(limit, 100) records, and
\* none for a limit below zero.
C13_HistoryWithinLimit ==
    alertResp.op = "get_alert_history" =>
        Len(alertResp.history) <=
            (IF alertReq.limit < 0 THEN 0 ELSE Min(alertReq.limit, HistoryMax))

\* C14: the history query returns the most recently recorded alerts, the
\* latest first: its i-th record is the i-th from the end of the history.
C14_MostRecentFirst ==
    alertResp.op = "get_alert_history" =>
        \A i \in 1..Len(alertResp.history) :
            alertResp.history[i] = alert_history[Len(alert_history) - i + 1]

-----------------------------------------------------------------------------
(* Claims: fleet-stats, thresholds and persistence *)

AirlinesOver(n) ==
    {stats.by_airline[i].key : i \in {j \in 1..Len(stats.by_airline) :
                                         stats.by_airline[j].count > n}}
Range(seq) == {seq[i] : i \in 1..Len(seq)}

\* C15: the threshold query returns exactly the airlines whose count is
\* strictly greater than min_flights, and the summary's list holds exactly
\* the airlines whose count is greater than 10.
C15_StrictThreshold ==
    /\ fleetResp.op = "airlines-with-min-flights" =>
          /\ Range(Keys(fleetResp.body.airlines)) = AirlinesOver(fleetResp.body.min_flights)
          /\ Len(fleetResp.body.airlines) = Cardinality(AirlinesOver(fleetResp.body.min_flights))
          /\ fleetResp.body.count = Len(fleetResp.body.airlines)
    /\ fleetResp.op = "summary" =>
          /\ Range(fleetResp.body.airlines_with_10_plus_flights) = AirlinesOver(10)
          /\ Len(fleetResp.body.airlines_with_10_plus_flights) = Cardinality(AirlinesOver(10))

\* The summary lists the airline with 11 flights and not the one with 10
C15_Witness ==
    /\ fleetResp.op = "summary"
    /\ Len(fleetResp.body.airlines_with_10_plus_flights) = 1
    /\ \E i \in 1..Len(stats.by_airline) : stats.by_airline[i].count = 10
    /\ \E i \in 1..Len(stats.by_airline) : stats.by_airline[i].count = 11

\* the airlines of a list, in the order of the list, are in descending
\* order of count, those of equal count in the order of stats.by_airline
SortedByCountThenFirstSeen(keys) ==
    \A i \in 1..Len(keys) : \A j \in (i + 1)..Len(keys) :
        LET a == stats.by_airline[Idx(stats.by_airline, keys[i])]
            b == stats.by_airline[Idx(stats.by_airline, keys[j])]
        IN  \/ a.count > b.count
            \/ /\ a.count = b.count
               /\ Idx(stats.by_airline, keys[i]) < Idx(stats.by_airline, keys[j])

\* C16: the airline lists of the summary and of the threshold query are
\* sorted by count descending; airlines of equal count are in the order in
\* which the store first observed them.
C16_SortedByCount ==
    /\ fleetResp.op = "summary" =>
          SortedByCountThenFirstSeen(fleetResp.body.airlines_with_10_plus_flights)
    /\ fleetResp.op = "airlines-with-min-flights" =>
          SortedByCountThenFirstSeen(Keys(fleetResp.body.airlines))

\* The summary lists two airlines of 11 flights each, United observed first
C16_Witness ==
    /\ fleetResp.op = "summary"
    /\ fleetResp.body.airlines_with_10_plus_flights = <<"United", "Delta">>
    /\ \A i \in 1..Len(stats.by_airline) : stats.by_airline[i].count = 11

Handled == nFleet' = nFleet + 1

\* C17: a write to the external store is attempted during the handling of
\* every flight-update event that brings the sum of the airline counts to a
\* multiple of 10, and during the handling of no other event.
C17_WriteAtMultiplesOfTen ==
    [][Handled =>
          /\ (/\ SumCounts(stats'.by_airline) # SumCounts(stats.by_airline)
              /\ SumCounts(stats'.by_airline) % 10 = 0) => fleetResp'.attempted
          /\ fleetResp'.attempted => SumCounts(stats'.by_airline) % 10 = 0]_vars

\* C18: an event whose write to the external store fails is acknowledged
\* with success, leaves the records that a successful write would have
\* left and the external store as it was; every event of the run, before
\* or after a failed write, is acknowledged with success and counted.
C18_WriteFailureSwallowed ==
    /\ [][(Handled /\ fleetResp'.attempted /\ ~fleetResp'.wrote) =>
             /\ fleetResp'.status = "success"
             /\ store' = store
             /\ \E e \in 1..Len(FleetEvents) :
                    /\ handled'[e] = handled[e] + 1
                    /\ stats' = fleet_flight_update_handler(
                                    stats, hashSeed, BodyOf(FleetEvents[e]), TRUE).stats]_vars
    /\ [][Handled =>
             /\ fleetResp'.status = "success"
             /\ SumCounts(stats'.by_airline) = SumCounts(stats.by_airline) + 1
             /\ stats'.total_active = SumCounts(stats'.by_airline)]_vars

\* The write at 10 flights failed and the 11th event was then processed
C18_Witness ==
    /\ fleetResp.op = "flight-update"
    /\ fleetResp.status = "success"
    /\ store = Absent
    /\ stats.total_active = 11
    /\ stats.last_update = "time"

\* a value in the external store that is not the full stats of this service
Unusable(value) ==
    \/ value.t \in {"absent", "undecodable"}
    \/ ~IsDict(value.v)
    \/ DOMAIN value.v # DOMAIN NewStats

\* C19: startup on an absent, unreadable, undecodable or structurally
\* incomplete value leaves stats all-empty with total 0, and a flight-update
\* event handled next is acknowledged with success.
C19_RestoreColdStart ==
    [][\A seed \in 0..MaxHashSeed : \A getOk \in BOOLEAN :
         (FleetRestart(seed, getOk) /\ (~getOk \/ Unusable(store))) =>
            /\ stats' = NewStats
            /\ fleet_flight_update_handler(stats', seed, BodyOf(FleetEvents[1]), TRUE).ack
                   = "success"]_vars

\* the buckets of the flight of event e, when it has one and is classified
EventBuckets(e) ==
    LET fl == ExtractFlight(BodyOf(FleetEvents[e]))
    IN  IF fl.ok /\ fl.val.t = "obj" /\ Classified(Classify(hashSeed, fl.val.v))
        THEN {BucketsOf(Classify(hashSeed, fl.val.v))}
        ELSE {}

\* C20: an event whose flight is classified is counted in the bucket of
\* each of the four dimensions, whether or not the update of another
\* dimension's record failed.
C20_DimensionsIndependent ==
    [][Handled =>
          \A e \in 1..Len(FleetEvents) :
              handled'[e] = handled[e] + 1 =>
                  \A b \in EventBuckets(e) : \A d \in Dimensions :
                      CountOf(stats'[d], b[d]) = CountOf(stats[d], b[d]) + 1]_vars

\* an event that carries no payload: an empty body, or an envelope whose
\* data field is null
NoPayload(event) ==
    \/ event.wrap = "direct" /\ event.flight = EmptyDict
    \/ event.wrap = "data_null"

\* C21: a flight-update request with no extractable payload is acknowledged
\* with status error and changes nothing: in fleet-stats no record and no
\* total, in emergency-alert no active alert and no history entry.
C21_NoPayloadDropped ==
    /\ [][Handled =>
             \A e \in 1..Len(FleetEvents) :
                 (handled'[e] = handled[e] + 1 /\ NoPayload(FleetEvents[e])) =>
                     /\ fleetResp'.status = "error"
                     /\ stats' = stats]_vars
    /\ [][\A e \in 1..Len(AlertEvents) :
             (/\ alertReq' = [op |-> "flight-update", e |-> e]
              /\ NoPayload(AlertEvents[e])) =>
                 /\ alertResp'.status = "error"
                 /\ active_alerts' = active_alerts
                 /\ alert_history' = alert_history]_vars

\* the value the flight of event e supplies under key k, when the flight
\* is a dict
Supplied(e, k) ==
    LET fl == ExtractFlight(BodyOf(FleetEvents[e]))
    IN  IF fl.ok /\ fl.val.t = "obj" THEN Get(fl.val.v, k, Null) ELSE Null

\* the record of bucket b took the metric v of an event into its total
Added(before, after, v) ==
    Truthy(v) => (v.t = "num" /\ after = before + v.v)

\* C23: no state that a query or a snapshot write can read holds a
\* half-updated record: when the handling of an event has ended and the
\* count of a record has grown for it, the altitude and the velocity the
\* event supplies have been added to that record's totals.
C23_NoHalfUpdatedRecord ==
    [][Handled =>
          \A e \in 1..Len(FleetEvents) :
              handled'[e] = handled[e] + 1 =>
                  \A b \in EventBuckets(e) : \A d \in Dimensions :
                      CountOf(stats'[d], b[d]) > CountOf(stats[d], b[d]) =>
                          /\ Added(RecordOf(stats[d], b[d]).total_altitude,
                                   RecordOf(stats'[d], b[d]).total_altitude,
                                   Supplied(e, "baro_altitude"))
                          /\ Added(RecordOf(stats[d], b[d]).total_velocity,
                                   RecordOf(stats'[d], b[d]).total_velocity,
                                   Supplied(e, "velocity"))]_vars

\* C25: an envelope whose data field is a string that is not JSON is not
\* failed by the parse: both handlers take the raw string as the payload.
C25_RawStringPassedThrough ==
    /\ [][Handled =>
             \A e \in 1..Len(FleetEvents) :
                 (handled'[e] = handled[e] + 1 /\ FleetEvents[e].wrap = "data_junk") =>
                     /\ ExtractFlight(BodyOf(FleetEvents[e])).ok
                     /\ ExtractFlight(BodyOf(FleetEvents[e])).val
                            = BodyOf(FleetEvents[e]).data]_vars
    /\ [][\A e \in 1..Len(AlertEvents) :
             (/\ alertReq' = [op |-> "flight-update", e |-> e]
              /\ AlertEvents[e].wrap = "data_junk") =>
                 AlertExtract(BodyOf(AlertEvents[e])) = BodyOf(AlertEvents[e]).data]_vars

\* C27: an event that fleet-stats acknowledges with status error leaves
\* every record, the set of buckets and total_active as they were.
C27_ErrorLeavesStatsUnchanged ==
    [][(Handled /\ fleetResp'.status = "error") => stats' = stats]_vars

\* C29: between events the four dimensions have counted the same events:
\* the sums of count over the four dimension maps are equal.
C29_DimensionSumsEqual ==
    \A d \in Dimensions : SumCounts(stats[d]) = SumCounts(stats.by_airline)

\* C26: the total seen at the persistence check of one successfully
\* acknowledged event is the total seen at the check of the previous one
\* plus 1 (total_active is assigned at the check and nowhere else).
C26_ChecksGrowByOne ==
    [][(Handled /\ fleetResp'.status = "success" /\ stats.total_active > 0) =>
          stats'.total_active = stats.total_active + 1]_vars

\* C28: a restart that reads the external store restores the stats (the
\* four dimension maps with count, samples and totals, and total_active) as
\* they were in memory at the last successful write.
C28_RestoreRoundTrip ==
    [][\A seed \in 0..MaxHashSeed :
         (FleetRestart(seed, TRUE) /\ tally.written # <<>>) =>
            stats' = tally.written[1]]_vars

\* The 10th event was written, the 11th was handled and lost in the restart
C28_Witness ==
    /\ fleetResp = NoResponse
    /\ nFleet = 11
    /\ tally.written # <<>>
    /\ stats = tally.written[1]
    /\ stats.total_active = 10
    /\ Len(stats.by_airline) = 2

\* C24: while a write to the external store is outstanding, another
\* flight-update event and a query can be handled.
C24_StoreNeverStalls ==
    saving.pending =>
        /\ ENABLED SlowGetSummary
        /\ \E e \in SlowEvents : ENABLED SlowFlightUpdate(e)

=============================================================================
